---- MODULE Spec2Model ----
(***************************************************************************)
(* A model of create_catalog_metadata.py: the conversion of a tab          *)
(* separated dataset description into one catalog metadata item.           *)
(*                                                                         *)
(* Python values are modelled as tagged values, so that a string, a list   *)
(* and a dict never compare equal:                                         *)
(*     Str(s)   a str                                                      *)
(*     Num(n)   a number                                                   *)
(*     List(l)  a list, l a sequence of values                             *)
(*     Dict(d)  a dict, d a function from its keys (strings) to values     *)
(* The two top-level dicts of the program, `metadata` and `meta_item`, are *)
(* functions from their keys to values.  A dict's insertion order is not   *)
(* kept.                                                                   *)
(***************************************************************************)
EXTENDS Integers, Sequences, FiniteSets, TLC

VARIABLES
    args,            \* main's view of its arguments: type, exists, suffix
    gitconfig,       \* the user's git configuration as get_gitconfig read it:
                     \* conf_name -> value, empty until it is read
    pc,              \* position of the run
    error,           \* class of the exception that left main, "" if none
    i,               \* transform_dataset_metadata: line counter
    metadata,        \* transform_dataset_metadata: the raw metadata record
    log,             \* records handed to the logger: <<level, line number>>
    produced,        \* history: per catalog key, the values parsed for it
    meta_item,       \* the item map_to_catalog returned (line 146 rebinds the
                     \* name `metadata` to it; the model keeps the record)
    stdout,          \* documents printed
    output_created,  \* open(output_path, 'w') has run
    output,          \* documents dumped to the output file
    call,            \* a call of parse_dataset_columns on its own: its arguments
    ret              \* and what it returned or raised

vars == <<args, gitconfig, pc, error, i, metadata, log, produced,
          meta_item, stdout, output_created, output, call, ret>>

---------------------------------------------------------------------------
\* Bounds of the model

\* lines read from the input file
MaxLines == 3

\* tab separated cells after the field name on one line
MaxVals == 3

---------------------------------------------------------------------------
\* Python values

Str(s) == [tag |-> "str", s |-> s]

Num(n) == [tag |-> "num", n |-> n]

List(s) == [tag |-> "list", l |-> s]

Dict(f) == [tag |-> "dict", d |-> f]

IsStr(v) == v.tag = "str"

IsList(v) == v.tag = "list"

IsDict(v) == v.tag = "dict"

IsNum(v) == v.tag = "num"

EmptyDict == [k \in {} |-> Str("")]

Min(a, b) == IF a < b THEN a ELSE b

\* the result of a call: a returned value or a raised exception
Return(v) == [raised |-> "", value |-> v]

Raise(e) == [raised |-> e]

---------------------------------------------------------------------------
\* The field schema and the name mappings

dataset_schema ==
    [identifier  |-> [type |-> "text", required |-> TRUE,  case |-> "single"],
     version     |-> [type |-> "text", required |-> FALSE, case |-> "single"],
     name        |-> [type |-> "text", required |-> TRUE,  case |-> "single"],
     description |-> [type |-> "text", required |-> FALSE, case |-> "single"],
     author      |-> [type |-> "list", required |-> FALSE, case |-> "multiple",
                      columns |-> <<"full_name", "orcid", "email", "affiliations">>],
     publication |-> [type |-> "list", required |-> FALSE, case |-> "multiple",
                      columns |-> <<"doi", "citation">>],
     keywords    |-> [type |-> "list", required |-> FALSE, case |-> "single"],
     property    |-> [type |-> "list", required |-> FALSE, case |-> "multiple",
                      columns |-> <<"name", "value">>],
     sfb1451     |-> [type |-> "list", required |-> FALSE, case |-> "multiple",
                      columns |-> <<"name", "value">>]]

dataset_catalog_mapping ==
    [identifier  |-> "dataset_id",
     version     |-> "dataset_version",
     name        |-> "name",
     description |-> "description",
     author      |-> "authors",
     publication |-> "publications",
     keywords    |-> "keywords",
     property    |-> "top_display",
     sfb1451     |-> "additional_display"]

CatalogKeys == {dataset_catalog_mapping[k] : k \in DOMAIN dataset_catalog_mapping}

catalog_dataset_mapping ==
    [v \in CatalogKeys |->
        CHOOSE k \in DOMAIN dataset_catalog_mapping : dataset_catalog_mapping[k] = v]

---------------------------------------------------------------------------
\* The input: a line is the sequence of its tab separated cells, the field
\* name first.  "" is a cell holding nothing but whitespace.

Tok(j) == "v" \o ToString(j)

InputNames == DOMAIN dataset_schema \cup {"foo", ""}

\* name, then n cells of which the last t are blank
MkLine(name, n, t) == <<name>> \o [j \in 1..n |-> IF j <= n - t THEN Tok(j) ELSE ""]

Lines ==
    {MkLine(c[1], c[2], c[3]) :
        c \in {d \in InputNames \X (0..MaxVals) \X (0..MaxVals) : d[3] <= d[2]}}

\* line.rstrip(): trailing whitespace goes, and with it every trailing blank cell
RECURSIVE RStrip(_)
RStrip(line) ==
    IF Len(line) = 0 THEN <<>>
    ELSE IF line[Len(line)] = "" THEN RStrip(SubSeq(line, 1, Len(line) - 1))
    ELSE line

\* str.split('\t') of the stripped line: the empty string splits into ['']
Split(line) == IF RStrip(line) = <<>> THEN <<"">> ELSE RStrip(line)

Tail1(s) == SubSeq(s, 2, Len(s))

---------------------------------------------------------------------------
\* parse_dataset_columns

\* {k: v for k, v in zip(columns, value)}: a later pair overrides an earlier
RECURSIVE ZipDict(_, _)
ZipDict(columns, value) ==
    IF Len(columns) = 0 \/ Len(value) = 0 THEN EmptyDict
    ELSE LET n == Min(Len(columns), Len(value))
             rest == ZipDict(SubSeq(columns, 1, n - 1), SubSeq(value, 1, n - 1))
         IN  (columns[n] :> Str(value[n])) @@ rest

Truncate(columns, value) ==
    IF Len(columns) > Len(value) THEN SubSeq(columns, 1, Len(value)) ELSE columns

\* a parse that pads the columns the line has no value for
parse_dataset_columns_padded(key, value, item_schema) ==
    IF Len(value) > 1 /\ "columns" \in DOMAIN item_schema
    THEN Return(<<dataset_catalog_mapping[key],
                  Dict([c \in {item_schema.columns[j] : j \in 1..Len(item_schema.columns)} |->
                          LET j == CHOOSE n \in 1..Len(item_schema.columns) :
                                       item_schema.columns[n] = c
                          IN  IF j <= Len(value) THEN Str(value[j]) ELSE Str("")])>>)
    ELSE IF Len(value) > 1
    THEN Return(<<dataset_catalog_mapping[key],
                  List([j \in 1..Len(value) |-> Str(value[j])])>>)
    ELSE IF Len(value) = 0 THEN Raise("IndexError")
    ELSE Return(<<dataset_catalog_mapping[key], Str(value[1])>>)

parse_dataset_columns(key, value, item_schema) ==
    IF Len(value) > 1
    THEN IF key \notin DOMAIN dataset_catalog_mapping THEN Raise("KeyError")
         ELSE IF "columns" \notin DOMAIN item_schema
         THEN Return(<<dataset_catalog_mapping[key],
                       List([j \in 1..Len(value) |-> Str(value[j])])>>)
         ELSE Return(<<dataset_catalog_mapping[key],
                       Dict(ZipDict(Truncate(item_schema.columns, value), value))>>)
    ELSE IF key \notin DOMAIN dataset_catalog_mapping THEN Raise("KeyError")
         ELSE IF Len(value) = 0 THEN Raise("IndexError")
         ELSE Return(<<dataset_catalog_mapping[key], Str(value[1])>>)

---------------------------------------------------------------------------
\* add_metadata_item

\* an add that lets a repeated field replace the value held
add_metadata_item_overwrite(key, value, md) == (key :> value) @@ md

add_metadata_item(key, value, md) ==
    IF key \in DOMAIN md
    THEN IF ~IsList(md[key])
         THEN (key :> List(<<md[key], value>>)) @@ md
         ELSE (key :> List(Append(md[key].l, value))) @@ md
    ELSE (key :> value) @@ md

---------------------------------------------------------------------------
\* Helpers of the model for Python's iteration and str()

\* every dict the parser builds is keyed by columns, inserted in column order
ColumnOrder ==
    <<"full_name", "orcid", "email", "affiliations", "doi", "citation", "name", "value">>

KeysInOrder(d) == SelectSeq(ColumnOrder, LAMBDA k : k \in DOMAIN d)

\* `for x in v`: the elements of a list, the keys of a dict, the characters
\* of a str (one-character strings, whose content is not tracked)
Iterate(v) ==
    IF IsList(v) THEN v.l
    ELSE IF IsDict(v) THEN [j \in 1..Len(KeysInOrder(v.d)) |-> Str(KeysInOrder(v.d)[j])]
    ELSE [j \in 1..Len(v.s) |-> Str("?")]

RECURSIVE Join(_)
Join(strs) ==
    IF Len(strs) = 0 THEN ""
    ELSE IF Len(strs) = 1 THEN strs[1]
    ELSE strs[1] \o ", " \o Join(Tail1(strs))

RECURSIVE PyRepr(_)
PyRepr(v) ==
    IF IsStr(v) THEN "'" \o v.s \o "'"
    ELSE IF IsNum(v) THEN ToString(v.n)
    ELSE IF IsList(v) THEN "[" \o Join([j \in 1..Len(v.l) |-> PyRepr(v.l[j])]) \o "]"
    ELSE LET ks == KeysInOrder(v.d)
         IN  "{" \o Join([j \in 1..Len(ks) |->
                            "'" \o ks[j] \o "': " \o PyRepr(v.d[ks[j]])]) \o "}"

\* str(v)
PyStr(v) == IF IsStr(v) THEN v.s ELSE PyRepr(v)

\* the first exception among the results of a loop's calls, "" if none
RECURSIVE FirstRaised(_)
FirstRaised(results) ==
    IF Len(results) = 0 THEN ""
    ELSE IF results[1].raised # "" THEN results[1].raised
    ELSE FirstRaised(Tail1(results))

\* dict.get(key, default)
Get(d, key, default) == IF key \in DOMAIN d THEN d[key] ELSE default

---------------------------------------------------------------------------
\* The catalog mapper

\* a lookup that falls back to the empty string
get_dataset_id_default(input) == Return(Get(input, "dataset_id", Str("")))

get_dataset_id(input) ==
    IF "dataset_id" \in DOMAIN input THEN Return(input["dataset_id"]) ELSE Raise("KeyError")

\* a version that is handed on without str()
get_dataset_version_raw(input) == Get(input, "dataset_version", Str("latest"))

get_dataset_version(input) ==
    IF "dataset_version" \in DOMAIN input
    THEN Str(PyStr(input["dataset_version"]))
    ELSE Str("latest")

get_author(author) ==
    IF ~IsDict(author) THEN Raise("AttributeError")
    ELSE Return(Dict(
            [name            |-> Get(author.d, "full_name", Str("")),
             givenName       |-> Str(""),
             familyName      |-> Str(""),
             email           |-> Get(author.d, "email", Str("")),
             honorificSuffix |-> Str(""),
             identifiers     |->
                 IF "orcid" \in DOMAIN author.d
                 THEN List(<<Dict([type |-> Str("ORCID"), identifier |-> author.d["orcid"]])>>)
                 ELSE List(<<>>)]))

\* d['name'], d['value'] of one element of the display
DisplayPair(d) ==
    IF ~IsDict(d) THEN Raise("TypeError")
    ELSE IF "name" \notin DOMAIN d.d \/ "value" \notin DOMAIN d.d THEN Raise("KeyError")
    ELSE IF ~IsStr(d.d["name"]) THEN Raise("TypeError")
    ELSE Return(<<d.d["name"].s, d.d["value"]>>)

\* content[d['name']] = d['value'] for each d: a later name overrides
RECURSIVE Content(_)
Content(pairs) ==
    IF Len(pairs) = 0 THEN EmptyDict
    ELSE LET n == Len(pairs)
         IN  (pairs[n].value[1] :> pairs[n].value[2]) @@ Content(SubSeq(pairs, 1, n - 1))

get_additional_display(display) ==
    LET ds == Iterate(display)
        pairs == [j \in 1..Len(ds) |-> DisplayPair(ds[j])]
    IN  IF FirstRaised(pairs) # "" THEN Raise(FirstRaised(pairs))
        ELSE Return(Dict(
                [name    |-> Str(catalog_dataset_mapping["additional_display"]),
                 content |-> Dict(Content(pairs))]))

get_publication(publication) ==
    IF ~IsDict(publication) THEN Raise("AttributeError")
    ELSE Return(Dict(
            [type              |-> Str(""),
             title             |-> Get(publication.d, "citation", Str("")),
             doi               |-> Get(publication.d, "doi", Str("")),
             datePublished     |-> Str(""),
             publicationOutlet |-> Str(""),
             authors           |-> List(<<>>)]))

\* get_gitconfig: the configured value ("" when unset), as git prints it
get_gitconfig(conf, conf_name) == conf[conf_name]

get_metadata_source(conf, now) ==
    Dict(
        [key_source_map |-> Dict(EmptyDict),
         sources        |-> List(<<Dict(
             [source_name    |-> Str("manual_to_automated_addition"),
              source_version |-> Str("0.1.0"),
              source_time    |-> Num(now),
              agent_email    |-> Str(get_gitconfig(conf, "user.name")),
              agent_name     |-> Str(get_gitconfig(conf, "user.email"))])>>)])

new_dataset_meta_item(ds_id, ds_version, ds_name, ds_description, conf, now) ==
    [type             |-> Str("dataset"),
     dataset_id       |-> ds_id,
     dataset_version  |-> ds_version,
     name             |-> ds_name,
     description      |-> ds_description,
     metadata_sources |-> get_metadata_source(conf, now)]

\* one turn of map_to_catalog's loop: the value set under `key`
MapField(key, value) ==
    IF key = "authors"
    THEN LET rs == [j \in 1..Len(Iterate(value)) |-> get_author(Iterate(value)[j])]
         IN  IF FirstRaised(rs) # "" THEN Raise(FirstRaised(rs))
             ELSE Return(List([j \in 1..Len(rs) |-> rs[j].value]))
    ELSE IF key = "additional_display"
    THEN LET r == get_additional_display(value)
         IN  IF r.raised # "" THEN r ELSE Return(List(<<r.value>>))
    ELSE IF key = "publications"
    THEN LET rs == [j \in 1..Len(Iterate(value)) |-> get_publication(Iterate(value)[j])]
         IN  IF FirstRaised(rs) # "" THEN Raise(FirstRaised(rs))
             ELSE Return(List([j \in 1..Len(rs) |-> rs[j].value]))
    ELSE Return(value)

\* map_to_catalog: the item returned, or the exceptions it may raise.  The
\* loop runs over the record's keys in insertion order, which the model does
\* not keep: when several keys raise, any of them may be the first.
map_to_catalog(md, conf, now) ==
    IF get_dataset_id(md).raised # "" THEN [raised |-> {get_dataset_id(md).raised}]
    ELSE LET base == new_dataset_meta_item(
                 get_dataset_id(md).value,
                 get_dataset_version(md),
                 Get(md, "name", Str("")),
                 Get(md, "description", Str("")),
                 conf, now)
             rest == DOMAIN md \ DOMAIN base
             raising == {k \in rest : MapField(k, md[k]).raised # ""}
         IN  IF raising # {} THEN [raised |-> {MapField(k, md[k]).raised : k \in raising}]
             ELSE [raised |-> {},
                   value  |-> [k \in DOMAIN base \cup rest |->
                                 IF k \in DOMAIN base THEN base[k]
                                 ELSE MapField(k, md[k]).value]]

---------------------------------------------------------------------------
\* The environment of one run

GitNames == {"", "Jane Doe"}

GitEmails == {"jane@example.org"}

\* datetime.now().timestamp()
Timestamps == {1700000000}

Init ==
    /\ args \in [type : {"dataset", "file"}, exists : BOOLEAN, suffix : {".tsv", ".txt"}]
    /\ gitconfig = EmptyDict
    /\ pc = "main"
    /\ error = ""
    /\ i = 0
    /\ metadata = EmptyDict
    /\ log = <<>>
    /\ produced = EmptyDict
    /\ meta_item = EmptyDict
    /\ stdout = <<>>
    /\ output_created = FALSE
    /\ output = <<>>
    /\ call = <<>>
    /\ ret = <<>>

---------------------------------------------------------------------------
\* main

Fail(e) ==
    /\ pc' = "failed"
    /\ error' = e

MainNoFile ==
    /\ pc = "main"
    /\ ~args.exists
    /\ Fail("ValueError")
    /\ UNCHANGED <<args, gitconfig, i, metadata, log, produced,
                   meta_item, stdout, output_created, output, call, ret>>

MainNotTsv ==
    /\ pc = "main"
    /\ args.exists
    /\ args.suffix # ".tsv"
    /\ Fail("ValueError")
    /\ UNCHANGED <<args, gitconfig, i, metadata, log, produced,
                   meta_item, stdout, output_created, output, call, ret>>

\* transform_file_metadata
MainFile ==
    /\ pc = "main"
    /\ args.exists
    /\ args.suffix = ".tsv"
    /\ args.type # "dataset"
    /\ Fail("NotImplementedError")
    /\ UNCHANGED <<args, gitconfig, i, metadata, log, produced,
                   meta_item, stdout, output_created, output, call, ret>>

MainDataset ==
    /\ pc = "main"
    /\ args.exists
    /\ args.suffix = ".tsv"
    /\ args.type = "dataset"
    /\ pc' = "scan"
    /\ metadata' = EmptyDict
    /\ i' = 0
    /\ UNCHANGED <<args, gitconfig, error, log, produced,
                   meta_item, stdout, output_created, output, call, ret>>

---------------------------------------------------------------------------
\* transform_dataset_metadata: one turn of the loop over the file's lines

Recognized(key) == key \in DOMAIN dataset_schema

ParseLine(cells) == parse_dataset_columns(cells[1], Tail1(cells), dataset_schema[cells[1]])

\* a skip that leaves the loop (break for continue)
SkipLineBreaks(line) ==
    /\ pc = "scan"
    /\ i < MaxLines
    /\ i' = i + 1
    /\ ~Recognized(Split(line)[1])
    /\ log' = Append(log, <<"info", i'>>)
    /\ pc' = "map"
    /\ UNCHANGED <<args, gitconfig, error, metadata, produced,
                   meta_item, stdout, output_created, output, call, ret>>

\* the field name is not in the schema: logged and skipped
SkipLine(line) ==
    /\ pc = "scan"
    /\ i < MaxLines
    /\ i' = i + 1
    /\ ~Recognized(Split(line)[1])
    /\ log' = Append(log, <<"info", i'>>)
    /\ UNCHANGED <<args, gitconfig, pc, error, metadata, produced,
                   meta_item, stdout, output_created, output, call, ret>>

\* the line raises: caught and logged
LineError(line) ==
    /\ pc = "scan"
    /\ i < MaxLines
    /\ i' = i + 1
    /\ Recognized(Split(line)[1])
    /\ ParseLine(Split(line)).raised # ""
    /\ log' = Append(log, <<"error", i'>>)
    /\ UNCHANGED <<args, gitconfig, pc, error, metadata, produced,
                   meta_item, stdout, output_created, output, call, ret>>

AddLine(line) ==
    /\ pc = "scan"
    /\ i < MaxLines
    /\ i' = i + 1
    /\ Recognized(Split(line)[1])
    /\ ParseLine(Split(line)).raised = ""
    /\ LET catalog_key == ParseLine(Split(line)).value[1]
           value == ParseLine(Split(line)).value[2]
       IN  /\ metadata' = add_metadata_item(catalog_key, value, metadata)
           /\ produced' = (catalog_key :> Append(Get(produced, catalog_key, <<>>), value))
                              @@ produced
    /\ UNCHANGED <<args, gitconfig, pc, error, log,
                   meta_item, stdout, output_created, output, call, ret>>

\* the file is exhausted
EndOfFile ==
    /\ pc = "scan"
    /\ pc' = "map"
    /\ UNCHANGED <<args, gitconfig, error, i, metadata, log, produced,
                   meta_item, stdout, output_created, output, call, ret>>

---------------------------------------------------------------------------
\* transform_dataset_metadata: map, print, write

GitConfigs ==
    {("user.name" :> n) @@ ("user.email" :> e) : n \in GitNames, e \in GitEmails}

\* get_dataset_id raises before the git configuration is read, the loop after
MapRaises(conf, now) ==
    /\ pc = "map"
    /\ \E e \in map_to_catalog(metadata, conf, now).raised : Fail(e)
    /\ gitconfig' = IF get_dataset_id(metadata).raised # "" THEN gitconfig ELSE conf
    /\ UNCHANGED <<args, i, metadata, log, produced,
                   meta_item, stdout, output_created, output, call, ret>>

MapReturns(conf, now) ==
    /\ pc = "map"
    /\ map_to_catalog(metadata, conf, now).raised = {}
    /\ gitconfig' = conf
    /\ meta_item' = map_to_catalog(metadata, conf, now).value
    /\ pc' = "print"
    /\ UNCHANGED <<args, error, i, metadata, log, produced,
                   stdout, output_created, output, call, ret>>

\* print(json.dumps(metadata))
PrintItem ==
    /\ pc = "print"
    /\ stdout' = Append(stdout, meta_item)
    /\ pc' = "open"
    /\ UNCHANGED <<args, gitconfig, error, i, metadata, log, produced,
                   meta_item, output_created, output, call, ret>>

\* open(output_path, 'w')
OpenOutput ==
    /\ pc = "open"
    /\ output_created' = TRUE
    /\ output' = <<>>
    /\ pc' = "dump"
    /\ UNCHANGED <<args, gitconfig, error, i, metadata, log, produced,
                   meta_item, stdout, call, ret>>

\* json.dump(metadata, outfile), and the file is closed
DumpItem ==
    /\ pc = "dump"
    /\ output' = Append(output, meta_item)
    /\ pc' = "done"
    /\ UNCHANGED <<args, gitconfig, error, i, metadata, log, produced,
                   meta_item, stdout, output_created, call, ret>>

Next ==
    \/ MainNoFile
    \/ MainNotTsv
    \/ MainFile
    \/ MainDataset
    \/ \E line \in Lines : SkipLine(line)
    \/ \E line \in Lines : LineError(line)
    \/ \E line \in Lines : AddLine(line)
    \/ EndOfFile
    \/ \E conf \in GitConfigs, now \in Timestamps : MapRaises(conf, now)
    \/ \E conf \in GitConfigs, now \in Timestamps : MapReturns(conf, now)
    \/ PrintItem
    \/ OpenOutput
    \/ DumpItem

Spec == Init /\ [][Next]_vars

---------------------------------------------------------------------------
\* parse_dataset_columns as a function of its arguments: a second
\* specification, which calls it once on a field of the schema and a list of
\* up to MaxVals cells

Cells == {"", "a", "b"}

CellLists == UNION {[1..n -> Cells] : n \in 0..MaxVals}

InitParse ==
    /\ args = [type |-> "dataset", exists |-> TRUE, suffix |-> ".tsv"]
    /\ gitconfig = EmptyDict
    /\ pc = "call"
    /\ error = ""
    /\ i = 0
    /\ metadata = EmptyDict
    /\ log = <<>>
    /\ produced = EmptyDict
    /\ meta_item = EmptyDict
    /\ stdout = <<>>
    /\ output_created = FALSE
    /\ output = <<>>
    /\ call \in [key : DOMAIN dataset_schema, value : CellLists]
    /\ ret = <<>>

ParseReturns ==
    /\ pc = "call"
    /\ parse_dataset_columns(call.key, call.value, dataset_schema[call.key]).raised = ""
    /\ ret' = parse_dataset_columns(call.key, call.value, dataset_schema[call.key])
    /\ pc' = "returned"
    /\ UNCHANGED <<args, gitconfig, error, i, metadata, log, produced,
                   meta_item, stdout, output_created, output, call>>

ParseRaises ==
    /\ pc = "call"
    /\ parse_dataset_columns(call.key, call.value, dataset_schema[call.key]).raised # ""
    /\ ret' = parse_dataset_columns(call.key, call.value, dataset_schema[call.key])
    /\ pc' = "raised"
    /\ UNCHANGED <<args, gitconfig, error, i, metadata, log, produced,
                   meta_item, stdout, output_created, output, call>>

NextParse ==
    \/ ParseReturns
    \/ ParseRaises

ParseSpec == InitParse /\ [][NextParse]_vars

---------------------------------------------------------------------------
\* Properties

ValidArgs == args.exists /\ args.suffix = ".tsv" /\ args.type = "dataset"

\* map_to_catalog has returned
Mapped == pc \in {"print", "open", "dump", "done"}

\* map_to_catalog has returned or raised
AfterMap == ValidArgs /\ pc \in {"failed", "print", "open", "dump", "done"}

ScalarOrMapping(v) == IsStr(v) \/ IsDict(v)

\* C1: a field whose occurrences each produced a scalar or a column mapping is
\* held as the value itself after one occurrence and as the list of all the
\* produced values, in line order, after two or more.
C1_Accretion ==
    \A k \in DOMAIN produced :
        (\A j \in 1..Len(produced[k]) : ScalarOrMapping(produced[k][j]))
        => /\ k \in DOMAIN metadata
           /\ Len(produced[k]) = 1 => metadata[k] = produced[k][1]
           /\ Len(produced[k]) >= 2 => metadata[k] = List(produced[k])

\* three author lines of one, two and three values are held as a list of three
C1_Witness ==
    /\ "authors" \in DOMAIN produced
    /\ produced["authors"] =
          <<Str("v1"),
            Dict([full_name |-> Str("v1"), orcid |-> Str("v2")]),
            Dict([full_name |-> Str("v1"), orcid |-> Str("v2"), email |-> Str("v3")])>>
    /\ metadata["authors"] = List(produced["authors"])

\* the author object the spec describes for a line of full name and orcid
AuthorOf(full_name, orcid) ==
    Dict([name            |-> full_name,
          givenName       |-> Str(""),
          familyName      |-> Str(""),
          email           |-> Str(""),
          honorificSuffix |-> Str(""),
          identifiers     |-> List(<<Dict([type |-> Str("ORCID"), identifier |-> orcid])>>)])

\* the input held an identifier and one author line of full name and orcid
OneAuthorLine ==
    /\ AfterMap
    /\ DOMAIN metadata = {"dataset_id", "authors"}
    /\ Len(produced["authors"]) = 1
    /\ IsDict(produced["authors"][1])
    /\ DOMAIN produced["authors"][1].d = {"full_name", "orcid"}

\* C2: on an identifier line and one author line of full name and orcid the
\* run completes, and the item's authors hold the author object with that
\* name, one ORCID identifier and an empty email.
C2_SingleAuthor ==
    OneAuthorLine =>
        /\ pc # "failed"
        /\ "authors" \in DOMAIN meta_item
        /\ IsList(meta_item["authors"])
        /\ \E j \in 1..Len(meta_item["authors"].l) :
              meta_item["authors"].l[j] =
                  AuthorOf(produced["authors"][1].d["full_name"],
                           produced["authors"][1].d["orcid"])

\* the publication object the spec describes for a line of doi and citation
PublicationOf(doi, citation) ==
    Dict([type              |-> Str(""),
          title             |-> citation,
          doi               |-> doi,
          datePublished     |-> Str(""),
          publicationOutlet |-> Str(""),
          authors           |-> List(<<>>)])

\* the input held an identifier and one publication line of doi and citation
OnePublicationLine ==
    /\ AfterMap
    /\ DOMAIN metadata = {"dataset_id", "publications"}
    /\ Len(produced["publications"]) = 1
    /\ IsDict(produced["publications"][1])
    /\ DOMAIN produced["publications"][1].d = {"doi", "citation"}

\* C3: on an identifier line and one publication line of doi and citation the
\* run completes, and the item's publications hold the publication object
\* whose title is the citation and whose doi is the doi.
C3_SinglePublication ==
    OnePublicationLine =>
        /\ pc # "failed"
        /\ "publications" \in DOMAIN meta_item
        /\ IsList(meta_item["publications"])
        /\ \E j \in 1..Len(meta_item["publications"].l) :
              meta_item["publications"].l[j] =
                  PublicationOf(produced["publications"][1].d["doi"],
                                produced["publications"][1].d["citation"])

\* Python's falsy values
Falsy(v) == v = Str("") \/ v = List(<<>>) \/ v = Dict(EmptyDict)

\* C4 as stated: the item's dataset_id is the record's, and its
\* dataset_version is "latest" when the record's is absent or falsy and the
\* record's version otherwise.
C4_VersionAsStated ==
    Mapped =>
        /\ meta_item["dataset_id"] = metadata["dataset_id"]
        /\ meta_item["dataset_version"] =
              IF "dataset_version" \notin DOMAIN metadata THEN Str("latest")
              ELSE IF Falsy(metadata["dataset_version"]) THEN Str("latest")
              ELSE metadata["dataset_version"]

\* C4 amended: the item's dataset_id is the record's; its dataset_version is
\* "latest" when the record has none, the record's version when that is a
\* string, and otherwise a string, the text str() gives for the list.
C4_VersionAmended ==
    Mapped =>
        /\ meta_item["dataset_id"] = metadata["dataset_id"]
        /\ "dataset_version" \notin DOMAIN metadata
              => meta_item["dataset_version"] = Str("latest")
        /\ "dataset_version" \in DOMAIN metadata
              => /\ IsStr(meta_item["dataset_version"])
                 /\ IsStr(metadata["dataset_version"])
                       => meta_item["dataset_version"] = metadata["dataset_version"]
                 /\ metadata["dataset_version"] = List(<<Str("v1"), Str("v2")>>)
                       => meta_item["dataset_version"] = Str("['v1', 'v2']")
                 /\ metadata["dataset_version"] = List(<<Str("v1"), List(<<Str("v1"), Str("v2")>>)>>)
                       => meta_item["dataset_version"] = Str("['v1', ['v1', 'v2']]")

\* an identifier line and no version line: the item is written with "latest"
C4_Witness ==
    /\ pc = "done"
    /\ DOMAIN metadata = {"dataset_id"}
    /\ meta_item["dataset_id"] = Str("v1")
    /\ meta_item["dataset_version"] = Str("latest")
    /\ output = <<meta_item>>

\* C5: a run whose record holds no dataset_id fails in the mapper, with
\* nothing printed and the output file neither created nor written.
C5_MissingId ==
    (ValidArgs /\ pc \notin {"main", "scan", "map"} /\ "dataset_id" \notin DOMAIN metadata)
        => /\ pc = "failed"
           /\ error = "KeyError"
           /\ stdout = <<>>
           /\ ~output_created
           /\ output = <<>>

\* a run with other fields and no identifier has failed
C5_Witness ==
    /\ pc = "failed"
    /\ error = "KeyError"
    /\ DOMAIN metadata = {"name", "authors"}
    /\ ~output_created

\* C6: for a field with columns c_1..c_m and n >= 2 values, the call returns
\* the mapping of c_i to the i-th value for i up to the smaller of n and m.
C6_Columns ==
    (/\ pc \in {"returned", "raised"}
     /\ "columns" \in DOMAIN dataset_schema[call.key]
     /\ Len(call.value) >= 2)
        => LET columns == dataset_schema[call.key].columns
               k == Min(Len(call.value), Len(columns))
           IN  /\ pc = "returned"
               /\ ret.value[1] = dataset_catalog_mapping[call.key]
               /\ IsDict(ret.value[2])
               /\ DOMAIN ret.value[2].d = {columns[j] : j \in 1..k}
               /\ \A j \in 1..k : ret.value[2].d[columns[j]] = Str(call.value[j])

\* fewer values than columns: an author with two of its four columns
C6_Witness ==
    /\ pc = "returned"
    /\ call = [key |-> "author", value |-> <<"a", "b">>]
    /\ ret.value = <<"authors", Dict([full_name |-> Str("a"), orcid |-> Str("b")])>>

\* C7: a line that is logged (its field name is unknown, or it raised) leaves
\* the record as it was and the scan goes on to the next line; no line ends
\* the run.
C7_BadLineSkipped ==
    [][pc = "scan" =>
          /\ pc' # "failed"
          /\ log' # log => /\ metadata' = metadata
                           /\ produced' = produced
                           /\ pc' = "scan"
                           /\ i' = i + 1]_vars

\* an unknown field on line 1 and a raising line 2, and line 3 was added
C7_Witness ==
    /\ log = << <<"info", 1>>, <<"error", 2>> >>
    /\ i = 3
    /\ DOMAIN metadata = {"dataset_id"}

\* C8: a record with a dataset_id is always mapped: map_to_catalog returns.
C8_MapperNeverRaises ==
    (AfterMap /\ "dataset_id" \in DOMAIN metadata) => pc # "failed"

\* the display lines of the input: each a mapping of name and value, the
\* names distinct
DisplayLines ==
    /\ AfterMap
    /\ "dataset_id" \in DOMAIN metadata
    /\ "additional_display" \in DOMAIN metadata
    /\ DOMAIN metadata \subseteq {"dataset_id", "additional_display", "top_display"}
    /\ \A j \in 1..Len(produced["additional_display"]) :
          /\ IsDict(produced["additional_display"][j])
          /\ DOMAIN produced["additional_display"][j].d = {"name", "value"}
    /\ \A j, k \in 1..Len(produced["additional_display"]) :
          j # k => produced["additional_display"][j].d["name"]
                      # produced["additional_display"][k].d["name"]

\* C9: on an identifier line and k >= 1 display lines of distinct names the
\* item's additional_display is a list of one object whose content maps each
\* name to its value, and a property field is under top_display as the
\* record holds it.
C9_AdditionalDisplay ==
    DisplayLines =>
        /\ pc # "failed"
        /\ "additional_display" \in DOMAIN meta_item
        /\ IsList(meta_item["additional_display"])
        /\ Len(meta_item["additional_display"].l) = 1
        /\ LET content == meta_item["additional_display"].l[1].d["content"].d
               lines == produced["additional_display"]
           IN  /\ DOMAIN content = {lines[j].d["name"].s : j \in 1..Len(lines)}
               /\ \A j \in 1..Len(lines) : content[lines[j].d["name"].s] = lines[j].d["value"]
        /\ "top_display" \in DOMAIN metadata
              => meta_item["top_display"] = metadata["top_display"]

\* C10: the one entry of sources holds user.name under agent_name and
\* user.email under agent_email, and key_source_map is empty.
C10_Provenance ==
    Mapped =>
        LET block == meta_item["metadata_sources"].d
        IN  /\ block["key_source_map"] = Dict(EmptyDict)
            /\ Len(block["sources"].l) = 1
            /\ block["sources"].l[1].d["agent_name"] = Str(gitconfig["user.name"])
            /\ block["sources"].l[1].d["agent_email"] = Str(gitconfig["user.email"])

====
